---- MODULE Spec2Model ----
(***************************************************************************)
(* Model of the extraction pipeline of app/extract.py: the OCR fallback    *)
(* decider, the PDF/image extraction paths, the lab-value field parser and *)
(* the batch file processor.                                               *)
(*                                                                         *)
(* A Python str is modelled as a sequence of one-character strings, so     *)
(* that len, strip, isalnum, lower, splitlines, substring containment and  *)
(* the regular expressions are computed character by character.            *)
(***************************************************************************)
EXTENDS Integers, Sequences, FiniteSets, TLC

VARIABLES
    \* is_text_extracted_meaningful called on its own
    m_text, m_threshold, m_ratio, m_result,
    \* safe_extract_value called on its own
    v_line, v_result,
    \* parse_medical_fields, one line of the text per step
    p_text, p_lines, p_i, p_results, p_src, p_pc,
    \* process_files
    input_dir, listing, idx, pc, kind, text, digital, ocr, stdout,
    processed_docs, hist, clock

m_vars == <<m_text, m_threshold, m_ratio, m_result>>
v_vars == <<v_line, v_result>>
p_vars == <<p_text, p_lines, p_i, p_results, p_src, p_pc>>
f_vars == <<input_dir, listing, idx, pc, kind, text, digital, ocr, stdout,
            processed_docs, hist, clock>>
vars == <<m_vars, v_vars, p_vars, f_vars>>

None == "None"

-----------------------------------------------------------------------------
(* Characters and the str methods the code uses                             *)

Digits == {"0", "1", "2", "3", "4", "5", "6", "7", "8", "9"}
LowerCase == <<"a", "b", "c", "d", "e", "f", "g", "h", "i", "j", "k", "l", "m",
               "n", "o", "p", "q", "r", "s", "t", "u", "v", "w", "x", "y", "z">>
UpperCase == <<"A", "B", "C", "D", "E", "F", "G", "H", "I", "J", "K", "L", "M",
               "N", "O", "P", "Q", "R", "S", "T", "U", "V", "W", "X", "Y", "Z">>
Range(s) == {s[i] : i \in DOMAIN s}

\* str.isalnum on one character (the texts modelled are ASCII)
Letters == Range(LowerCase) \cup Range(UpperCase)
isalnum(c) == c \in Digits \/ c \in Letters

\* str.isspace: what str.strip removes and the regex class \s matches (the
\* white space the modelled texts hold)
isspace(c) == c \in {" ", "\n", "\t", "\r"}

\* the regex class \w
isword(c) == isalnum(c) \/ c = "_"

\* str.lower on one character
LowerOf == [c \in Range(UpperCase) |->
               LowerCase[CHOOSE i \in DOMAIN UpperCase : UpperCase[i] = c]]
lower_char(c) == IF c \in DOMAIN LowerOf THEN LowerOf[c] ELSE c

\* str.lower
lower(s) == [i \in DOMAIN s |-> lower_char(s[i])]

RECURSIVE lstrip(_)
lstrip(s) == IF s # <<>> /\ isspace(Head(s)) THEN lstrip(Tail(s)) ELSE s

RECURSIVE rstrip(_)
rstrip(s) ==
    IF s # <<>> /\ isspace(s[Len(s)]) THEN rstrip(SubSeq(s, 1, Len(s) - 1)) ELSE s

\* str.strip
strip(s) == rstrip(lstrip(s))

\* needle in haystack
contains(haystack, needle) ==
    \E i \in 1..(Len(haystack) - Len(needle) + 1) :
        \A j \in 1..Len(needle) : haystack[i + j - 1] = needle[j]

\* s repeated n times
Rep(s, n) == [i \in 1..(n * Len(s)) |-> s[((i - 1) % Len(s)) + 1]]

\* the concatenation of a sequence of strings
RECURSIVE Concat(_)
Concat(ss) == IF ss = <<>> THEN <<>> ELSE Head(ss) \o Concat(Tail(ss))

-----------------------------------------------------------------------------
(* is_text_extracted_meaningful                                             *)

DefaultThreshold == 500
\* the default ratio 0.25, as a fraction
DefaultRatio == [num |-> 1, den |-> 4]

\* sum(c.isalnum() for c in text), over the characters lo..hi of the text;
\* the sum is split in halves to keep the evaluation shallow
RECURSIVE alnum_sum(_, _, _)
alnum_sum(s, lo, hi) ==
    IF lo > hi THEN 0
    ELSE IF lo = hi THEN (IF isalnum(s[lo]) THEN 1 ELSE 0)
    ELSE LET mid == (lo + hi) \div 2
         IN  alnum_sum(s, lo, mid) + alnum_sum(s, mid + 1, hi)
alnum_chars(s) == alnum_sum(s, 1, Len(s))

\* Mutant: both operands of `and` evaluated, the division first.
is_text_extracted_meaningful_eager(t, threshold, ratio) ==
    IF Len(t) = 0
    THEN [exc |-> "ZeroDivisionError", value |-> FALSE]
    ELSE [exc |-> None,
          value |-> Len(strip(t)) > threshold
                    /\ alnum_chars(t) * ratio.den > ratio.num * Len(t)]

\* Mutant: the length test on the untrimmed text.
is_text_extracted_meaningful_nostrip(t, threshold, ratio) ==
    IF Len(t) > threshold
    THEN IF Len(t) = 0
         THEN [exc |-> "ZeroDivisionError", value |-> FALSE]
         ELSE [exc |-> None,
               value |-> alnum_chars(t) * ratio.den > ratio.num * Len(t)]
    ELSE [exc |-> None, value |-> FALSE]

\* `and` short-circuits: the division runs only when the length test passed,
\* and raises ZeroDivisionError when len(text) is 0.
is_text_extracted_meaningful(t, threshold, ratio) ==
    IF Len(strip(t)) > threshold
    THEN IF Len(t) = 0
         THEN [exc |-> "ZeroDivisionError", value |-> FALSE]
         ELSE [exc |-> None,
               value |-> alnum_chars(t) * ratio.den > ratio.num * Len(t)]
    ELSE [exc |-> None, value |-> FALSE]

-----------------------------------------------------------------------------
(* The regular expressions of safe_extract_value                            *)

\* \d{n} at i
DigitsAt(s, i, n) == i + n - 1 <= Len(s) /\ \A k \in i..(i + n - 1) : s[k] \in Digits

\* \s* from i up to (not including) j
SpacesBetween(s, i, j) == \A k \in i..(j - 1) : isspace(s[k])

\* [-–—]: hyphen, en dash, em dash
isdash(c) == c \in {"-", "EN_DASH", "EM_DASH"}

\* \b before position i (i = Len(s) + 1: at the end of the line)
WordBoundary(s, i) ==
    (i > 1 /\ i - 1 <= Len(s) /\ isword(s[i - 1])) # (i <= Len(s) /\ isword(s[i]))

\* The quantifier choices of \d{1,3}\.\d{1,2}, greedy ones first.
DecimalChoices == <<[n |-> 3, m |-> 2], [n |-> 3, m |-> 1], [n |-> 2, m |-> 2],
                    [n |-> 2, m |-> 1], [n |-> 1, m |-> 2], [n |-> 1, m |-> 1]>>

DecimalFits(s, i, c) ==
    /\ DigitsAt(s, i, c.n)
    /\ i + c.n <= Len(s) /\ s[i + c.n] = "."
    /\ DigitsAt(s, i + c.n + 1, c.m)

\* \d{1,3}\.\d{1,2} at i: the positions just after each way to match, in the
\* order the regex engine tries them.
DecimalEnds(s, i) ==
    IF i > Len(s) \/ s[i] \notin Digits THEN <<>>
    ELSE LET fits == SelectSeq(DecimalChoices, LAMBDA c : DecimalFits(s, i, c))
         IN  [k \in DOMAIN fits |-> i + fits[k].n + 1 + fits[k].m]

\* re.search(r"[<>]=?\s*\d", line) is not None
InequalityAt(s, i) ==
    /\ s[i] \in {"<", ">"}
    /\ \E j \in {i + 1, i + 2} :
        /\ j = i + 2 => (i + 1 <= Len(s) /\ s[i + 1] = "=")
        /\ \E k \in j..Len(s) : SpacesBetween(s, j, k) /\ s[k] \in Digits
has_inequality(s) == \E i \in DOMAIN s : InequalityAt(s, i)

\* \s*[-–—]\s* from position e: the positions where the second number of a
\* range may start
AfterDash(s, e) ==
    {b \in (e + 1)..Len(s) :
        \E a \in e..(b - 1) :
            SpacesBetween(s, e, a) /\ isdash(s[a]) /\ SpacesBetween(s, a + 1, b)}

\* re.search(r"\b(\d{1,3}\.\d{1,2})\s*[-–—]\s*(\d{1,3}\.\d{1,2})\b", line):
\* the range matched from i ends just before one of these positions
RangeEndsAt(s, i) ==
    IF ~WordBoundary(s, i) THEN {}
    ELSE LET ends1 == DecimalEnds(s, i)
         IN  {e2 \in (i + 1)..(Len(s) + 1) :
                \E k1 \in DOMAIN ends1 :
                \E b \in AfterDash(s, ends1[k1]) :
                  /\ \E k2 \in DOMAIN DecimalEnds(s, b) : DecimalEnds(s, b)[k2] = e2
                  /\ WordBoundary(s, e2)}
range_match(s) == \E i \in DOMAIN s : s[i] \in Digits /\ RangeEndsAt(s, i) # {}

\* len(re.findall(r"\d{1,3}\.\d{1,2}", line)): leftmost, non-overlapping
RECURSIVE findall_count(_, _)
findall_count(s, i) ==
    IF i > Len(s) THEN 0
    ELSE LET ends == DecimalEnds(s, i)
         IN  IF ends # <<>>
             THEN 1 + findall_count(s, ends[1])
             ELSE findall_count(s, i + 1)

\* \b(\d{1,3}\.\d{1,2})\b at i: the position just after the first way to
\* match that ends on a word boundary, 0 when there is none
NumberEndAt(s, i) ==
    IF ~WordBoundary(s, i) THEN 0
    ELSE LET ok == SelectSeq(DecimalEnds(s, i), LAMBDA e : WordBoundary(s, e))
         IN  IF ok # <<>> THEN ok[1] ELSE 0

\* re.search(r"\b(\d{1,3}\.\d{1,2})\b", line): the start of the leftmost match,
\* 0 when there is none
number_search(s) ==
    LET starts == {i \in DOMAIN s : s[i] \in Digits /\ NumberEndAt(s, i) # 0}
    IN  IF starts = {} THEN 0
        ELSE CHOOSE i \in starts : \A x \in starts : i <= x

-----------------------------------------------------------------------------
(* safe_extract_value: a str or None                                        *)

NoValue == [none |-> TRUE, value |-> <<>>]
Value(v) == [none |-> FALSE, value |-> v]

\* match.group(1) if match else None
first_number(s) ==
    LET i == number_search(s)
    IN  IF i = 0 THEN NoValue ELSE Value(SubSeq(s, i, NumberEndAt(s, i) - 1))

\* Mutant: the inequality test without \s*.
safe_extract_value_nospace(line) ==
    IF \E i \in DOMAIN line :
          /\ line[i] \in {"<", ">"}
          /\ \E j \in {i + 1, i + 2} :
               /\ j = i + 2 => (i + 1 <= Len(line) /\ line[i + 1] = "=")
               /\ j <= Len(line) /\ line[j] \in Digits
    THEN NoValue
    ELSE IF range_match(line) /\ findall_count(line, 1) <= 2 THEN NoValue
    ELSE first_number(line)

safe_extract_value(line) ==
    IF has_inequality(line) THEN NoValue
    ELSE IF range_match(line) /\ findall_count(line, 1) <= 2 THEN NoValue
    ELSE first_number(line)

-----------------------------------------------------------------------------
(* parse_medical_fields                                                     *)

\* the dict `fields`, in insertion order
fields == <<
    [key |-> "hemoglobin", keywords |-> <<<<"h", "e", "m", "o", "g", "l", "o", "b", "i", "n">>>>],
    [key |-> "wbc_count", keywords |-> <<<<"w", "b", "c">>>>],
    [key |-> "rbc_count", keywords |-> <<<<"r", "b", "c">>>>],
    [key |-> "platelet_count", keywords |-> <<<<"p", "l", "a", "t", "e", "l", "e", "t">>>>],
    [key |-> "esr", keywords |-> <<<<"e", "s", "r">>>>],
    [key |-> "glucose", keywords |-> <<<<"g", "l", "u", "c", "o", "s", "e">>>>],
    [key |-> "creatinine", keywords |-> <<<<"c", "r", "e", "a", "t", "i", "n", "i", "n", "e">>>>],
    [key |-> "uric_acid", keywords |-> <<<<"u", "r", "i", "c", " ", "a", "c", "i", "d">>>>],
    [key |-> "vitamin_d", keywords |-> <<<<"v", "i", "t", "a", "m", "i", "n", " ", "d">>>>]>>

\* str.splitlines: the line boundaries of the texts modelled are \n, \r and
\* \r\n; no empty last line follows a final boundary
LineBreaks == {"\n", "\r"}
NextBreak(s, i) ==
    LET breaks == {k \in i..Len(s) : s[k] \in LineBreaks}
    IN  IF breaks = {} THEN Len(s) + 1
        ELSE CHOOSE k \in breaks : \A x \in breaks : k <= x
RECURSIVE splitlines_from(_, _)
splitlines_from(s, i) ==
    IF i > Len(s) THEN <<>>
    ELSE LET k == NextBreak(s, i)
             after == IF k < Len(s) /\ s[k] = "\r" /\ s[k + 1] = "\n"
                      THEN k + 2 ELSE k + 1
         IN  <<SubSeq(s, i, k - 1)>> \o splitlines_from(s, after)
splitlines(s) == splitlines_from(s, 1)

\* any(k in line_lower for k in keywords)
any_keyword(keywords, line_lower) ==
    \E n \in DOMAIN keywords : contains(line_lower, keywords[n])

\* One iteration of `for key, keywords in fields.items()`: the value is stored
\* when it is truthy and the key has none yet.
FieldStep(results, line_lower, field) ==
    IF any_keyword(field.keywords, line_lower)
    THEN LET value == safe_extract_value(line_lower)
         IN  IF ~value.none /\ value.value # <<>> /\ field.key \notin DOMAIN results
             THEN results @@ (field.key :> value.value)
             ELSE results
    ELSE results

\* The inner loop over the entries flds of a field table, from entry n on.
RECURSIVE ScanLineFrom(_, _, _, _)
ScanLineFrom(results, line_lower, flds, n) ==
    IF n > Len(flds) THEN results
    ELSE ScanLineFrom(FieldStep(results, line_lower, flds[n]), line_lower, flds, n + 1)

\* Mutant: a stored value is overwritten by a later line's.
ScanLine_overwrite(results, line) ==
    LET line_lower == lower(line)
        hit == {n \in DOMAIN fields :
                   /\ any_keyword(fields[n].keywords, line_lower)
                   /\ ~safe_extract_value(line_lower).none}
    IN  [k \in DOMAIN results \cup {fields[n].key : n \in hit} |->
            IF \E n \in hit : fields[n].key = k
            THEN safe_extract_value(line_lower).value
            ELSE results[k]]

\* Mutant: the first field of the table that takes a value from a line wins
\* the line; the fields after it are not tried on it.
ScanLine_firstwins(results, line) ==
    LET line_lower == lower(line)
        takes == {n \in DOMAIN fields :
                     FieldStep(results, line_lower, fields[n]) # results}
    IN  IF takes = {} THEN results
        ELSE FieldStep(results, line_lower,
                       fields[CHOOSE n \in takes : \A x \in takes : n <= x])

\* The body of `for line in lines`.
ScanLine(results, line) == ScanLineFrom(results, lower(line), fields, 1)

\* parse_medical_fields from line i of lines on
RECURSIVE ScanLines(_, _, _)
ScanLines(results, lines, i) ==
    IF i > Len(lines) THEN results
    ELSE ScanLines(ScanLine(results, lines[i]), lines, i + 1)

parse_medical_fields(t) == ScanLines(<<>>, splitlines(t), 1)

-----------------------------------------------------------------------------
(* safe_extract_value called on lines built from a pool of tokens           *)

MaxTokens == 4
Tokens == {<<"1", ".", "5">>, <<"2", ".", "5", "-", "3", ".", "5">>, <<"7">>,
           <<"-">>, <<" ">>, <<"<">>, <<"=">>, <<"a">>}
TokenSeqs == UNION {[1..n -> Tokens] : n \in 0..MaxTokens}
Pending == [none |-> TRUE, value |-> <<"pending">>]

NotCalled == [exc |-> "not called", value |-> FALSE]
\* no OCR call made for the file at hand
NotRun == [ran |-> FALSE, raised |-> FALSE, result |-> <<>>]

\* The variables of the operations a specification does not exercise.
MeaningfulIdle ==
    m_text = <<>> /\ m_threshold = 0 /\ m_ratio = DefaultRatio /\ m_result = NotCalled
ValueIdle == v_line = <<>> /\ v_result = Pending
ParseIdle ==
    /\ p_text = <<>> /\ p_lines = <<>> /\ p_i = 0 /\ p_results = <<>> /\ p_src = <<>>
    /\ p_pc = "idle"
FilesIdle ==
    /\ input_dir = None /\ listing = <<>> /\ idx = 0 /\ pc = "idle" /\ kind = None
    /\ text = <<>> /\ digital = <<>> /\ ocr = NotRun /\ stdout = <<>>
    /\ processed_docs = <<>> /\ hist = <<>> /\ clock = 0

ValueInit ==
    /\ \E ts \in TokenSeqs : v_line = Concat(ts)
    /\ v_result = Pending
    /\ MeaningfulIdle /\ ParseIdle /\ FilesIdle

CallSafeExtractValue ==
    /\ v_result = Pending
    /\ v_result' = safe_extract_value(v_line)
    /\ UNCHANGED <<v_line, m_vars, p_vars, f_vars>>

ValueNext == CallSafeExtractValue
SpecValue == ValueInit /\ [][ValueNext]_vars

-----------------------------------------------------------------------------
(* The rules of safe_extract_value, stated over the substrings of a line    *)

\* s[i..e-1] is 1-3 digits, a point, 1-2 digits
IsDecimal(s, i, e) ==
    \E q \in (i + 1)..(e - 2) :
        /\ s[q] = "." /\ q - i <= 3 /\ e - 1 - q <= 2
        /\ \A k \in (i..(e - 1)) \ {q} : s[k] \in Digits

\* no word character just before position i / at position e
StartsWord(s, i) == i = 1 \/ ~isword(s[i - 1])
EndsWord(s, e) == e > Len(s) \/ ~isword(s[e])

\* s[i..e-1] is a decimal number standing on its own
IsNumber(s, i, e) == IsDecimal(s, i, e) /\ StartsWord(s, i) /\ EndsWord(s, e)

\* the substrings <<i, e>> (from i up to e - 1) that are decimals; a decimal
\* is 3 to 6 characters long
DecimalEndsFrom(s, i) ==
    {e \in (i + 3)..(i + 6) : e <= Len(s) + 1 /\ IsDecimal(s, i, e)}
DecimalSpans(s) ==
    UNION {{<<i, e>> : e \in DecimalEndsFrom(s, i)} :
              i \in {k \in DOMAIN s : s[k] \in Digits}}

\* s[e1..b-1] is blanks, one dash, blanks
IsDashGap(s, e1, b) ==
    \E a \in e1..(b - 1) :
        isdash(s[a]) /\ \A k \in (e1..(b - 1)) \ {a} : isspace(s[k])

\* the substrings that are ranges: decimal, blanks, a dash, blanks, decimal,
\* standing on their own
RangeSpans(s) ==
    LET ds == DecimalSpans(s)
    IN  {<<pr[1][1], pr[2][2]>> : pr \in
            {pr \in ds \X ds :
                /\ pr[1][2] < pr[2][1]
                /\ StartsWord(s, pr[1][1]) /\ EndsWord(s, pr[2][2])
                /\ IsDashGap(s, pr[1][2], pr[2][1])}}

\* '<' or '>', optionally '=', then a digit with nothing in between
DirectInequality(s) ==
    \E i \in DOMAIN s :
        /\ s[i] \in {"<", ">"}
        /\ \/ i + 1 <= Len(s) /\ s[i + 1] \in Digits
           \/ i + 2 <= Len(s) /\ s[i + 1] = "=" /\ s[i + 2] \in Digits

\* '<' or '>', optionally '=', then blanks (possibly none), then a digit
SpacedInequality(s) ==
    \E i \in DOMAIN s, k \in DOMAIN s :
        /\ i < k /\ s[i] \in {"<", ">"} /\ s[k] \in Digits
        /\ \A j \in (i + 1)..(k - 1) : isspace(s[j]) \/ (j = i + 1 /\ s[j] = "=")

\* The decimal numbers of the line counted from the left, each as long as it
\* can be: the decimal starting at i is counted unless a counted decimal that
\* starts to its left runs over position i.
LongestDecimal(s, i) ==
    LET ends == DecimalEndsFrom(s, i)
    IN  IF ends = {} THEN 0 ELSE CHOOSE e \in ends : \A x \in ends : x <= e
RECURSIVE IsCounted(_, _)
IsCounted(s, i) ==
    /\ s[i] \in Digits
    /\ LongestDecimal(s, i) # 0
    /\ ~ \E j \in (i - 5)..(i - 1) :
            j >= 1 /\ LongestDecimal(s, j) > i /\ IsCounted(s, j)
DecimalCount(s) == Cardinality({i \in DOMAIN s : IsCounted(s, i)})

\* the first decimal number standing on its own, or none
NumberSpans(s) == {sp \in DecimalSpans(s) : IsNumber(s, sp[1], sp[2])}
FirstNumber(s) ==
    IF NumberSpans(s) = {} THEN NoValue
    ELSE LET sp == CHOOSE x \in NumberSpans(s) :
                     \A y \in NumberSpans(s) :
                        x[1] < y[1] \/ (x[1] = y[1] /\ x[2] >= y[2])
         IN  Value(SubSeq(s, sp[1], sp[2] - 1))

ThreeRules(s, inequality) ==
    IF inequality THEN NoValue
    ELSE IF RangeSpans(s) # {} /\ DecimalCount(s) <= 2 THEN NoValue
    ELSE FirstNumber(s)

\* C8 as stated: safe_extract_value applies the three rules in order, the
\* inequality rule rejecting '<' or '>' (optionally followed by '=') that
\* directly precedes a digit.
C8_ThreeRulesDirect ==
    v_result # Pending => v_result = ThreeRules(v_line, DirectInequality(v_line))

\* C8 amended: the same three rules in the same order, where the inequality
\* rule also rejects a line in which blanks stand between the '<' or '>'
\* (optionally followed by '=') and the digit.
C8_ThreeRulesSpaced ==
    v_result # Pending => v_result = ThreeRules(v_line, SpacedInequality(v_line))

\* A number before a range: three decimals, so the range rule does not apply
\* and the first one is returned ("Hemoglobin: 13.8 (11.5 - 16.5)").
C8_Witness ==
    /\ v_line = <<"1", ".", "5", " ", "2", ".", "5", "-", "3", ".", "5">>
    /\ v_result = Value(<<"1", ".", "5">>)

\* C9: a returned value is never an endpoint of a range of its line nor the
\* operand of an inequality.
C9_ConfidentValue ==
    (v_result # Pending /\ ~v_result.none) =>
        LET at == number_search(v_line)
        IN  /\ \A sp \in RangeSpans(v_line) : at < sp[1] \/ at >= sp[2]
            /\ ~ (\E i \in 1..(at - 1) :
                    /\ v_line[i] \in {"<", ">"}
                    /\ \A j \in (i + 1)..(at - 1) :
                         isspace(v_line[j]) \/ v_line[j] = "=")

-----------------------------------------------------------------------------
(* is_text_extracted_meaningful called on short texts with small thresholds *)

MaxTextLen == 4
MaxThreshold == 3
TextChars == {"a", " ", "#"}
ShortTexts == UNION {[1..n -> TextChars] : n \in 0..MaxTextLen}
Ratios == {[num |-> 0, den |-> 1], DefaultRatio, [num |-> 1, den |-> 2],
           [num |-> 1, den |-> 1]}

MeaningfulInit ==
    /\ m_text \in ShortTexts
    /\ m_threshold \in (-1)..MaxThreshold
    /\ m_ratio \in Ratios
    /\ m_result = NotCalled
    /\ ValueIdle /\ ParseIdle /\ FilesIdle

CallIsTextExtractedMeaningful ==
    /\ m_result = NotCalled
    /\ m_result' = is_text_extracted_meaningful(m_text, m_threshold, m_ratio)
    /\ UNCHANGED <<m_text, m_threshold, m_ratio, v_vars, p_vars, f_vars>>

MeaningfulNext == CallIsTextExtractedMeaningful
SpecMeaningful == MeaningfulInit /\ [][MeaningfulNext]_vars

\* the length of the text between its first and its last non-blank character
TrimmedLen(s) ==
    LET solid == {i \in DOMAIN s : ~isspace(s[i])}
    IN  IF solid = {} THEN 0
        ELSE (CHOOSE i \in solid : \A k \in solid : k <= i)
             - (CHOOSE i \in solid : \A k \in solid : i <= k) + 1
AlnumCount(s) == Cardinality({i \in DOMAIN s : isalnum(s[i])})
Returned(r) == r.exc = None

\* C5: the call returns true exactly when the trimmed length exceeds the
\* threshold and alnum_count / total_length exceeds the ratio; a text no
\* longer than the threshold gets false whatever it holds.
C5_MeaningfulIff ==
    m_result # NotCalled =>
        /\ (Returned(m_result) /\ m_result.value)
             <=> /\ TrimmedLen(m_text) > m_threshold
                 /\ AlnumCount(m_text) * m_ratio.den > m_ratio.num * Len(m_text)
        /\ Len(m_text) <= m_threshold => (Returned(m_result) /\ ~m_result.value)

\* A text longer than the threshold only by its blanks, judged not meaningful.
C5_Witness ==
    /\ m_text = <<"a", "a", " ", " ">> /\ m_threshold = 2 /\ m_ratio = DefaultRatio
    /\ Returned(m_result) /\ ~m_result.value

\* C6: an empty or all-blank text with a threshold >= 0 gets false, and no
\* ZeroDivisionError is raised.
C6_EmptyNoDivision ==
    (m_result # NotCalled /\ TrimmedLen(m_text) = 0 /\ m_threshold >= 0) =>
        (m_result.exc = None /\ ~m_result.value)

\* The empty text with threshold 0 has been judged.
C6_Witness == m_text = <<>> /\ m_threshold = 0 /\ m_result # NotCalled

-----------------------------------------------------------------------------
(* parse_medical_fields called on texts built from a pool of report lines   *)

MaxLines == 2
ReportLines == {
    <<"H", "e", "m", "o", "g", "l", "o", "b", "i", "n", " ", "1", "3", ".", "8">>,
    <<"h", "e", "m", "o", "g", "l", "o", "b", "i", "n", " ", "9", ".", "1">>,
    <<"W", "B", "C", " ", "<", "4", ".", "0">>,
    <<"w", "b", "c", " ", "r", "b", "c", " ", "5", ".", "2">>,
    <<"R", "B", "C", " ", "4", ".", "5">>,
    <<"u", "r", "i", "c", " ", "a", "c", "i", "d", " ", "3", ".", "5", " ", "-", " ", "7", ".", "2">>,
    <<"e", "s", "r", " ", "1", ".", "5", " ", "(", "0", ".", "5", "-", "2", ".", "5", ")">>,
    <<"n", "o", "t", "e", " ", "1", ".", "0">>}
RECURSIVE JoinLines(_)
JoinLines(ls) ==
    IF ls = <<>> THEN <<>>
    ELSE IF Len(ls) = 1 THEN ls[1]
    ELSE ls[1] \o <<"\n">> \o JoinLines(Tail(ls))
ReportTexts == {JoinLines(ls) : ls \in UNION {[1..n -> ReportLines] : n \in 0..MaxLines}}

ParseInit ==
    /\ p_text \in ReportTexts
    /\ p_lines = <<>> /\ p_i = 0 /\ p_results = <<>> /\ p_src = <<>>
    /\ p_pc = "start"
    /\ MeaningfulIdle /\ ValueIdle /\ FilesIdle

\* results = {}; lines = text.splitlines()
ParseStart ==
    /\ p_pc = "start"
    /\ p_results' = <<>> /\ p_src' = <<>>
    /\ p_lines' = splitlines(p_text)
    /\ p_i' = 1
    /\ p_pc' = "scan"
    /\ UNCHANGED <<p_text, m_vars, v_vars, f_vars>>

\* One iteration of `for line in lines`; p_src remembers the line each key
\* was stored from.
ParseLine ==
    /\ p_pc = "scan" /\ p_i <= Len(p_lines)
    /\ p_results' = ScanLine(p_results, p_lines[p_i])
    /\ p_src' = [k \in DOMAIN p_results' |->
                    IF k \in DOMAIN p_results THEN p_src[k] ELSE p_i]
    /\ p_i' = p_i + 1
    /\ UNCHANGED <<p_text, p_lines, p_pc, m_vars, v_vars, f_vars>>

\* return results
ParseReturn ==
    /\ p_pc = "scan" /\ p_i > Len(p_lines)
    /\ p_pc' = "done"
    /\ UNCHANGED <<p_text, p_lines, p_i, p_results, p_src, m_vars, v_vars, f_vars>>

ParseNext == ParseStart \/ ParseLine \/ ParseReturn
SpecParse == ParseInit /\ [][ParseNext]_vars

FieldKeys == {"hemoglobin", "wbc_count", "rbc_count", "platelet_count", "esr",
              "glucose", "creatinine", "uric_acid", "vitamin_d"}
KeywordsOf(k) == fields[CHOOSE n \in DOMAIN fields : fields[n].key = k].keywords

\* line n of the text names the field k and yields a confident value
Qualifies(lines, n, k) ==
    /\ \E w \in Range(KeywordsOf(k)) : contains(lower(lines[n]), w)
    /\ ~safe_extract_value(lower(lines[n])).none
QualifyingLines(lines, k) == {n \in DOMAIN lines : Qualifies(lines, n, k)}
Earliest(S) == CHOOSE n \in S : \A x \in S : n <= x

\* C7: at every point of the scan each stored key is one of the nine field
\* keys and holds the value of the earliest line of the text that names the
\* field and yields a confident value (so a later line never replaces it);
\* when the scan is over a key is absent exactly when the text has no such
\* line.
C7_FirstMatchWins ==
    LET lines == splitlines(p_text)
    IN  /\ \A k \in DOMAIN p_results :
              /\ k \in FieldKeys
              /\ QualifyingLines(lines, k) # {}
              /\ p_results[k] =
                   safe_extract_value(
                       lower(lines[Earliest(QualifyingLines(lines, k))])).value
        /\ p_pc = "done" =>
              \A k \in FieldKeys :
                  QualifyingLines(lines, k) # {} => k \in DOMAIN p_results

\* Two hemoglobin lines with different values have been scanned and the first
\* one's value is the one held.
C7_Witness ==
    /\ p_pc = "done"
    /\ p_text = JoinLines(<<<<"H", "e", "m", "o", "g", "l", "o", "b", "i", "n", " ", "1", "3", ".", "8">>,
                            <<"h", "e", "m", "o", "g", "l", "o", "b", "i", "n", " ", "9", ".", "1">>>>)
    /\ p_results = ("hemoglobin" :> <<"1", "3", ".", "8">>)

Reverse(q) == [n \in DOMAIN q |-> q[Len(q) + 1 - n]]
RECURSIVE ParseWith(_, _, _, _)
ParseWith(results, lines, flds, i) ==
    IF i > Len(lines) THEN results
    ELSE ParseWith(ScanLineFrom(results, lower(lines[i]), flds, 1), lines, flds, i + 1)
Only(f, k) == [x \in DOMAIN f \cap {k} |-> f[x]]

\* C10: the result of the scan is the one the reversed field table gives, its
\* entry for each field is the one a table holding that field alone gives,
\* and keys stored from the same line hold the same value.
C10_FieldsIndependent ==
    /\ p_pc = "done" =>
          /\ p_results = ParseWith(<<>>, p_lines, Reverse(fields), 1)
          /\ \A n \in DOMAIN fields :
                Only(p_results, fields[n].key)
                    = ParseWith(<<>>, p_lines, <<fields[n]>>, 1)
    /\ \A k1 \in DOMAIN p_results, k2 \in DOMAIN p_results :
          p_src[k1] = p_src[k2] => p_results[k1] = p_results[k2]

\* A line naming two unresolved fields has given both its value, after an
\* earlier line resolved another field.
C10_Witness ==
    /\ p_pc = "done"
    /\ {"hemoglobin", "wbc_count", "rbc_count"} \subseteq DOMAIN p_results
    /\ p_src["wbc_count"] = p_src["rbc_count"]
    /\ p_src["hemoglobin"] < p_src["wbc_count"]

-----------------------------------------------------------------------------
(* process_files and the extraction paths it dispatches to                  *)

SUPPORTED_IMAGE_EXTENSIONS == {<<".", "p", "n", "g">>, <<".", "j", "p", "g">>, <<".", "j", "p", "e", "g">>}

\* os.path.splitext(filename)[-1]: the text from the last point on, unless
\* only points come before it (a name holds no path separator)
RECURSIVE LastDot(_, _)
LastDot(name, i) ==
    IF i = 0 THEN 0 ELSE IF name[i] = "." THEN i ELSE LastDot(name, i - 1)
splitext_ext(name) ==
    LET dot == LastDot(name, Len(name))
    IN  IF dot > 0 /\ \E k \in 1..(dot - 1) : name[k] # "."
        THEN SubSeq(name, dot, Len(name))
        ELSE <<>>

\* Mutant: the extension compared as spelled.
extension_nolower(filename) == splitext_ext(filename)

\* ext = os.path.splitext(filename)[-1].lower()
extension(filename) == lower(splitext_ext(filename))

\* "\n".join(texts)
RECURSIVE join_newline(_)
join_newline(texts) ==
    IF texts = <<>> THEN <<>>
    ELSE IF Len(texts) = 1 THEN texts[1]
    ELSE texts[1] \o <<"\n">> \o join_newline(Tail(texts))

\* " | ".join([cell or "" for cell in row])
RECURSIVE join_cells(_)
join_cells(row) ==
    IF row = <<>> THEN <<>>
    ELSE LET cell == IF row[1].none THEN <<>> ELSE row[1].value
         IN  IF Len(row) = 1 THEN cell
             ELSE cell \o <<" ", "|", " ">> \o join_cells(Tail(row))

\* "\n".join(rows of a table)
table_text(table) == join_newline([r \in DOMAIN table |-> join_cells(table[r])])

\* What one page adds to `texts` with try_table_extraction set: its tables
\* when it has any, else its text when that is not empty.
page_texts(page) ==
    IF page.tables # <<>>
    THEN [n \in DOMAIN page.tables |-> table_text(page.tables[n])]
    ELSE IF page.text # <<>> THEN <<page.text>> ELSE <<>>

\* The try block of extract_text_from_pdf over a document pdfplumber opens.
pdf_text(pages) ==
    join_newline(Concat([n \in DOMAIN pages |-> page_texts(pages[n])]))

\* The loop of extract_text_with_ocr_from_pdf over the rendered pages: each
\* page's recognised text is appended; a page the engine fails on loses the
\* whole document.
RECURSIVE ocr_pages(_)
ocr_pages(results) ==
    IF results = <<>> THEN Value(<<>>)
    ELSE IF results[1].none THEN NoValue
    ELSE LET rest == ocr_pages(Tail(results))
         IN  IF rest.none THEN NoValue ELSE Value(results[1].value \o rest.value)

Doc(filename, timestamp, raw_text, parsed_fields) ==
    [filename |-> filename, timestamp |-> timestamp, raw_text |-> raw_text,
     parsed_fields |-> parsed_fields]

\* datetime.now().isoformat() at clock reading t
isoformat(t) == Value(<<t>>)

-----------------------------------------------------------------------------
(* The directory, the documents and the OCR engine process_files may meet   *)

MaxFiles == 2
FileNames == {<<"a", ".", "p", "d", "f">>,
              <<"B", ".", "P", "D", "F">>,
              <<".", "p", "d", "f">>,
              <<"c", ".", "j", "p", "g">>,
              <<"d", ".", "J", "P", "E", "G">>,
              <<"e", ".", "p", "n", "g">>,
              <<"n", "o", "t", "e", "s", ".", "t", "x", "t">>}
\* os.listdir gives each entry once, in no particular order
Listings ==
    {l \in UNION {[1..n -> FileNames] : n \in 0..MaxFiles} :
        \A i \in DOMAIN l, j \in DOMAIN l : l[i] = l[j] => i = j}

Garbage == <<"#", "@", " ", "1", ".", "5", "#">>
GoodText == <<"h", "e", "m", "o", "g", "l", "o", "b", "i", "n", " ", "1", "3", ".", "8">>
Filler == Rep(<<"x">>, DefaultThreshold)
SparseText == <<"w", "b", "c", " ", "5", ".", "2", "\n">> \o Rep(<<"#">>, DefaultThreshold)
OcrPage1 == <<"H", "e", "m", "o", "g", "l", "o", "b", "i", "n", " ", "1", "3", ".", "8", "\n">>
OcrPage2 == <<"W", "B", "C", " ", "<", "4", ".", "0", "\n">>
Page(tables, txt) == [tables |-> tables, text |-> txt]

\* What pdfplumber finds in a file: it raises, or it gives the pages.
PdfDocuments == {
    [raises |-> TRUE, pages |-> <<>>],
    [raises |-> FALSE, pages |-> <<Page(<<>>, <<>>)>>],
    [raises |-> FALSE, pages |-> <<Page(<<>>, Garbage)>>],
    [raises |-> FALSE, pages |-> <<Page(<<>>, GoodText), Page(<<>>, Filler)>>],
    [raises |-> FALSE, pages |-> <<Page(<<>>, SparseText)>>],
    [raises |-> FALSE,
     pages |-> <<Page(<< <<
                  <<Value(<<"w", "b", "c">>), NoValue, Value(<<"5", ".", "2">>)>>
                >> >>, Garbage)>>]}

\* What rendering and recognising a PDF gives: convert_from_path raises, or
\* each page is recognised (a text) or fails (NoValue).
PdfOcrOutcomes == {
    [raises |-> TRUE, pages |-> <<>>],
    [raises |-> FALSE, pages |-> <<Value(OcrPage1), Value(OcrPage2)>>],
    [raises |-> FALSE, pages |-> <<Value(OcrPage1), NoValue>>],
    [raises |-> FALSE, pages |-> <<Value(Garbage)>>]}

\* What opening and recognising an image gives: Image.open raises, or the
\* engine fails (NoValue) or gives a text.
ImageOcrOutcomes == {
    [raises |-> TRUE, result |-> NoValue],
    [raises |-> FALSE, result |-> NoValue],
    [raises |-> FALSE, result |-> Value(OcrPage1)],
    [raises |-> FALSE, result |-> Value(<<>>)]}

Printed(msg, file) == [msg |-> msg, file |-> file]

Init ==
    /\ input_dir \in {"reports", "missing"}
    /\ listing \in IF input_dir = "reports" THEN Listings ELSE {<<>>}
    /\ idx = 0 /\ pc = "start" /\ kind = None
    /\ text = <<>> /\ digital = <<>> /\ ocr = NotRun /\ stdout = <<>>
    /\ processed_docs = <<>> /\ hist = <<>> /\ clock = 0
    /\ MeaningfulIdle /\ ValueIdle /\ ParseIdle

\* processed_docs = []; os.listdir(input_dir), which raises for a path that
\* is no directory
ListDir ==
    /\ pc = "start"
    /\ IF input_dir = "reports"
       THEN pc' = "loop" /\ idx' = 1
       ELSE pc' = "raised" /\ idx' = idx
    /\ processed_docs' = <<>>
    /\ UNCHANGED <<input_dir, listing, kind, text, digital, ocr, stdout, hist, clock,
                   m_vars, v_vars, p_vars>>

\* The head of the loop body: the extension decides the path.
Dispatch ==
    /\ pc = "loop" /\ idx <= Len(listing)
    /\ LET filename == listing[idx]
           ext == extension(filename)
       IN  IF ext = <<".", "p", "d", "f">>
           THEN /\ kind' = "pdf" /\ pc' = "pdf_open" /\ idx' = idx
                /\ stdout' = Append(stdout, Printed("Processing PDF", idx))
           ELSE IF ext \in SUPPORTED_IMAGE_EXTENSIONS
           THEN /\ kind' = "image" /\ pc' = "image_ocr" /\ idx' = idx
                /\ stdout' = Append(stdout, Printed("Processing Image", idx))
           ELSE /\ kind' = None /\ pc' = "loop" /\ idx' = idx + 1
                /\ stdout' = Append(stdout, Printed("[SKIP]", idx))
    /\ text' = <<>> /\ digital' = <<>> /\ ocr' = NotRun
    /\ UNCHANGED <<input_dir, listing, processed_docs, hist, clock,
                   m_vars, v_vars, p_vars>>

\* extract_text_from_pdf, the try block and its handler
PdfDigital ==
    /\ pc = "pdf_open"
    /\ \E doc \in PdfDocuments :
          IF doc.raises
          THEN /\ text' = <<>>
               /\ stdout' = Append(stdout, Printed("[ERROR] PDFPlumber failed", idx))
          ELSE /\ text' = pdf_text(doc.pages)
               /\ stdout' = stdout
    /\ digital' = text'
    /\ pc' = "pdf_decide"
    /\ UNCHANGED <<input_dir, listing, idx, kind, ocr, processed_docs, hist, clock,
                   m_vars, v_vars, p_vars>>

\* Mutant: the fallback runs whatever the decider says.
PdfDecide_always ==
    /\ pc = "pdf_decide"
    /\ pc' = "pdf_ocr"
    /\ stdout' = Append(stdout, Printed("[OCR Fallback]", idx))
    /\ UNCHANGED <<input_dir, listing, idx, kind, text, digital, ocr,
                   processed_docs, hist, clock, m_vars, v_vars, p_vars>>

\* if not is_text_extracted_meaningful(text): the call stands outside the try
\* block, so an exception of it leaves process_files
PdfDecide ==
    /\ pc = "pdf_decide"
    /\ LET r == is_text_extracted_meaningful(text, DefaultThreshold, DefaultRatio)
       IN  IF r.exc # None THEN pc' = "raised" /\ stdout' = stdout
           ELSE IF ~r.value
           THEN /\ pc' = "pdf_ocr"
                /\ stdout' = Append(stdout, Printed("[OCR Fallback]", idx))
           ELSE pc' = "record" /\ stdout' = stdout
    /\ UNCHANGED <<input_dir, listing, idx, kind, text, digital, ocr,
                   processed_docs, hist, clock, m_vars, v_vars, p_vars>>

\* Mutant: the OCR text is dropped and the digital text kept.
PdfOcr_discard ==
    /\ pc = "pdf_ocr"
    /\ \E out \in PdfOcrOutcomes :
          LET got == IF out.raises THEN NoValue ELSE ocr_pages(out.pages)
          IN  /\ ocr' = [ran |-> TRUE, raised |-> got.none, result |-> got.value]
              /\ stdout' = IF got.none
                           THEN Append(stdout, Printed("[ERROR] OCR failed on PDF", idx))
                           ELSE stdout
    /\ text' = text
    /\ pc' = "record"
    /\ UNCHANGED <<input_dir, listing, idx, kind, digital, processed_docs, hist,
                   clock, m_vars, v_vars, p_vars>>

\* text = extract_text_with_ocr_from_pdf(pdf_path): any exception gives ""
PdfOcr ==
    /\ pc = "pdf_ocr"
    /\ \E out \in PdfOcrOutcomes :
          LET got == IF out.raises THEN NoValue ELSE ocr_pages(out.pages)
          IN  /\ text' = got.value
              /\ ocr' = [ran |-> TRUE, raised |-> got.none, result |-> got.value]
              /\ stdout' = IF got.none
                           THEN Append(stdout, Printed("[ERROR] OCR failed on PDF", idx))
                           ELSE stdout
    /\ pc' = "record"
    /\ UNCHANGED <<input_dir, listing, idx, kind, digital, processed_docs, hist,
                   clock, m_vars, v_vars, p_vars>>

\* raw_text = extract_text_with_ocr_from_image(file_path): any exception
\* gives ""
ImageOcr ==
    /\ pc = "image_ocr"
    /\ \E out \in ImageOcrOutcomes :
          LET got == IF out.raises THEN NoValue ELSE out.result
          IN  /\ text' = got.value
              /\ ocr' = [ran |-> TRUE, raised |-> got.none, result |-> got.value]
              /\ stdout' = IF got.none
                           THEN Append(stdout, Printed("[ERROR] OCR failed on image", idx))
                           ELSE stdout
    /\ pc' = "record"
    /\ UNCHANGED <<input_dir, listing, idx, kind, digital, processed_docs, hist,
                   clock, m_vars, v_vars, p_vars>>

\* The tail of the loop body: the fields are parsed and the record appended;
\* hist keeps, for each record, what the extraction of its file went through.
Record ==
    /\ pc = "record"
    /\ processed_docs' =
          Append(processed_docs,
                 Doc(listing[idx], isoformat(clock), text, parse_medical_fields(text)))
    /\ hist' = Append(hist, [kind |-> kind, digital |-> digital, ocr |-> ocr])
    /\ clock' = clock + 1
    /\ idx' = idx + 1
    /\ pc' = "loop"
    /\ UNCHANGED <<input_dir, listing, kind, text, digital, ocr, stdout,
                   m_vars, v_vars, p_vars>>

\* return processed_docs
Return ==
    /\ pc = "loop" /\ idx > Len(listing)
    /\ pc' = "done"
    /\ UNCHANGED <<input_dir, listing, idx, kind, text, digital, ocr, stdout,
                   processed_docs, hist, clock, m_vars, v_vars, p_vars>>

Next ==
    \/ ListDir \/ Dispatch \/ PdfDigital \/ PdfDecide \/ PdfOcr \/ ImageOcr
    \/ Record \/ Return
Spec == Init /\ [][Next]_vars

-----------------------------------------------------------------------------
(* Properties of process_files                                              *)

\* C1: process_files never leaves by an exception, whatever the directory
\* argument and whatever its collaborators do.
C1_NeverRaises == pc # "raised"

\* the name ends, whatever the case of its letters, in one of the four
\* extensions, counted from its last point, with more than points before it
RecognizedExtensions == SUPPORTED_IMAGE_EXTENSIONS \cup {<<".", "p", "d", "f">>}
Recognized(name) ==
    \E d \in DOMAIN name :
        /\ name[d] = "."
        /\ \A k \in (d + 1)..Len(name) : name[k] # "."
        /\ \E k \in 1..(d - 1) : name[k] # "."
        /\ lower(SubSeq(name, d, Len(name))) \in RecognizedExtensions
Filenames(docs) == [n \in DOMAIN docs |-> docs[n].filename]

\* C2: between two files and at the end, the records are those of the
\* recognized entries listed so far, one each, in listing order; each has a
\* timestamp and a mapping from field keys; a file whose extraction call
\* ended in its exception handler has the empty raw_text.
C2_OneRecordPerRecognizedFile ==
    pc \in {"loop", "done"} =>
        /\ Filenames(processed_docs)
             = SelectSeq(SubSeq(listing, 1, idx - 1), Recognized)
        /\ \A n \in DOMAIN processed_docs :
              /\ ~processed_docs[n].timestamp.none
              /\ DOMAIN processed_docs[n].parsed_fields \subseteq FieldKeys
              /\ hist[n].ocr.raised => processed_docs[n].raw_text = <<>>

\* The batch is over, an entry was skipped and a file whose extraction failed
\* has its record.
C2_Witness ==
    /\ pc = "done"
    /\ 0 < Len(processed_docs) /\ Len(processed_docs) < Len(listing)
    /\ \E n \in DOMAIN processed_docs : hist[n].ocr.raised

PdfFailed(i) == Printed("[ERROR] PDFPlumber failed", i) \in Range(stdout)

\* C3: no OCR call is made while the digital attempt or the decision is
\* still to come; when extract_text_from_pdf returns, OCR has run exactly
\* when the digital text is not meaningful, a PDF-library failure has left
\* the digital text empty and OCR has run, and the text returned is the OCR
\* result when OCR ran and the digital text otherwise.
C3_OcrIffNotMeaningful ==
    /\ pc \in {"pdf_open", "pdf_decide", "pdf_ocr"} => ~ocr.ran
    /\ (pc = "record" /\ kind = "pdf") =>
          /\ ocr.ran <=>
               ~is_text_extracted_meaningful(digital, DefaultThreshold,
                                             DefaultRatio).value
          /\ PdfFailed(idx) => (digital = <<>> /\ ocr.ran)
          /\ text = IF ocr.ran THEN ocr.result ELSE digital

\* pdfplumber failed on the file, OCR ran and its text is the one returned.
C3_Witness ==
    /\ pc = "record" /\ kind = "pdf" /\ PdfFailed(idx)
    /\ ocr.ran /\ ~ocr.raised /\ text = ocr.result /\ text # <<>>

\* at most 500 characters, or an alphanumeric ratio not above 0.25
ShortGarbage(t) ==
    \/ Len(t) <= DefaultThreshold
    \/ AlnumCount(t) * DefaultRatio.den <= DefaultRatio.num * Len(t)
GarbledPdfs == {n \in DOMAIN hist : hist[n].kind = "pdf" /\ ShortGarbage(hist[n].digital)}

\* C4 as stated: a PDF whose digital text is short garbage goes through OCR
\* and its record's raw_text differs from the digital text.
C4_RawTextDiffers ==
    \A n \in GarbledPdfs :
        hist[n].ocr.ran /\ processed_docs[n].raw_text # hist[n].digital

\* C4 amended: such a PDF goes through OCR and its record's raw_text is the
\* text the OCR path returned, the empty string when OCR failed.
C4_RawTextIsOcrText ==
    \A n \in GarbledPdfs :
        /\ hist[n].ocr.ran
        /\ processed_docs[n].raw_text = hist[n].ocr.result
        /\ hist[n].ocr.raised => processed_docs[n].raw_text = <<>>

\* A garbled PDF whose OCR gave another text has its record.
C4_Witness ==
    \E n \in GarbledPdfs :
        /\ hist[n].digital = Garbage
        /\ ~hist[n].ocr.raised
        /\ processed_docs[n].raw_text = OcrPage1 \o OcrPage2

====
